---------------------------- MODULE Spec2Model ----------------------------
(***************************************************************************)
(* ctxrewriter: a model of the AST rewriter (rewrite), of the two entry    *)
(* points that parse, rewrite and print (Process, ProcessFile) and of the  *)
(* command line driver (main).                                             *)
(*                                                                         *)
(* AST nodes live in a heap: heap[i] is the struct behind pointer i and 0  *)
(* is the nil pointer / nil interface.  A node is a record with its kind,  *)
(* one field per child slot (a pointer for a single child, a slice value   *)
(* for a sequence) and its leaf value (Name, Value, Tok).  A Go slice is   *)
(* [nil |-> BOOLEAN, elems |-> sequence of pointers], so that a nil slice  *)
(* and an empty one are different values.                                  *)
(***************************************************************************)
EXTENDS Naturals, Sequences, FiniteSets, TLC

VARIABLES heap,      \* the AST nodes allocated so far
          pc,        \* position of the running entry point
          root,      \* the node handed to rewrite (f in Process/ProcessFile)
          res,       \* the node rewrite returned, 0 before it returns
          res2,      \* the node a second rewrite of root returned
          source,    \* Process: its argument
          pret,      \* Process: its return values
          args,      \* main: flag.Args()
          inplace,   \* main: *inplaceFlag
          idx,       \* main: number of loop iterations begun
          filename,  \* ProcessFile: its argument
          disk,      \* the file system: path -> content
          stdout,    \* what was written to os.Stdout
          err        \* ProcessFile's return value

vars == <<heap, pc, root, res, res2, source, pret, args, inplace, idx,
          filename, disk, stdout, err>>

----------------------------------------------------------------------------
(* Bounds of the model. *)

\* longest sequence (arguments, statements, fields, ...) of a generated input
MaxLen == 2
\* largest number of paths on the command line
MaxArgs == 2

----------------------------------------------------------------------------
(* Slices and the shape of each node kind. *)

ctxVariable == "ctx"

NilSlice == [nil |-> TRUE, elems |-> <<>>]
Slice(s) == [nil |-> FALSE, elems |-> s]

rq(n, ty) == [n |-> n, how |-> "req", ty |-> ty]
op(n, ty) == [n |-> n, how |-> "opt", ty |-> ty]
ls(n, ty) == [n |-> n, how |-> "list", ty |-> ty]
kp(n, ty) == [n |-> n, how |-> "keep", ty |-> ty]
kl(n, ty) == [n |-> n, how |-> "keeplist", ty |-> ty]

\* The kinds the type switch returns as they are.
LeafKinds == {"ImportSpec", "BasicLit", "Ident", "BranchStmt", "EmptyStmt"}

\* The child slots of the leaf kinds that hold nodes (none is ever visited).
LeafShape ==
  [ ImportSpec |-> << kp("Path", "BasicLit") >>,
    BasicLit   |-> << >>,
    Ident      |-> << >>,
    BranchStmt |-> << >>,
    EmptyStmt  |-> << >> ]

\* One entry per cloning case of the type switch: the child slots of the
\* kind, those the case rewrites in the order it rewrites them:
\*   req  : c.S = rewrite(c.S)                    (unconditional)
\*   opt  : if c.S != nil { c.S = rewrite(c.S) }
\*   list : a slice rewritten element by element, nil kept nil
\*   keep, keeplist : a child the case never touches, copied by c := *v
\* ty is the static type of the slot (the type assertion of the case).
\* Of the slots no case touches, those that can hold a call or a function
\* type are listed (ValueSpec.Type, FuncDecl.Recv), and those the rewriter
\* itself fills (Field.Names, SelectorExpr.Sel); names, labels, tags,
\* operators, positions and comments are left out.
Shape ==
  [ ArrayType      |-> << op("Len", "Expr"), rq("Elt", "Expr") >>,
    AssignStmt     |-> << ls("Lhs", "Expr"), ls("Rhs", "Expr") >>,
    BinaryExpr     |-> << rq("X", "Expr"), rq("Y", "Expr") >>,
    BlockStmt      |-> << ls("List", "Stmt") >>,
    CallExpr       |-> << rq("Fun", "Expr"), ls("Args", "Expr") >>,
    CaseClause     |-> << ls("List", "Expr"), ls("Body", "Stmt") >>,
    ChanType       |-> << rq("Value", "Expr") >>,
    CommClause     |-> << op("Comm", "Stmt"), ls("Body", "Stmt") >>,
    CompositeLit   |-> << op("Type", "Expr"), ls("Elts", "Expr") >>,
    DeclStmt       |-> << rq("Decl", "Decl") >>,
    DeferStmt      |-> << rq("Call", "CallExpr") >>,
    Ellipsis       |-> << op("Elt", "Expr") >>,
    ExprStmt       |-> << rq("X", "Expr") >>,
    Field          |-> << kl("Names", "Ident"), rq("Type", "Expr") >>,
    FieldList      |-> << ls("List", "Field") >>,
    File           |-> << ls("Decls", "Decl") >>,
    ForStmt        |-> << op("Init", "Stmt"), op("Cond", "Expr"),
                          op("Post", "Stmt"), op("Body", "BlockStmt") >>,
    FuncDecl       |-> << kp("Recv", "FieldList"), op("Body", "BlockStmt"),
                          rq("Type", "FuncType") >>,
    FuncLit        |-> << rq("Type", "FuncType"), op("Body", "BlockStmt") >>,
    FuncType       |-> << rq("Params", "FieldList"),
                          op("Results", "FieldList") >>,
    GenDecl        |-> << ls("Specs", "Spec") >>,
    GoStmt         |-> << rq("Call", "CallExpr") >>,
    IfStmt         |-> << op("Init", "Stmt"), op("Cond", "Expr"),
                          op("Body", "BlockStmt"), op("Else", "Stmt") >>,
    IncDecStmt     |-> << rq("X", "Expr") >>,
    IndexExpr      |-> << rq("X", "Expr"), rq("Index", "Expr") >>,
    InterfaceType  |-> << rq("Methods", "FieldList") >>,
    KeyValueExpr   |-> << rq("Key", "Expr"), rq("Value", "Expr") >>,
    LabeledStmt    |-> << rq("Stmt", "Stmt") >>,
    MapType        |-> << rq("Key", "Expr"), rq("Value", "Expr") >>,
    ParenExpr      |-> << rq("X", "Expr") >>,
    RangeStmt      |-> << op("Key", "Expr"), op("Value", "Expr"),
                          op("X", "Expr"), op("Body", "BlockStmt") >>,
    ReturnStmt     |-> << ls("Results", "Expr") >>,
    SelectStmt     |-> << op("Body", "BlockStmt") >>,
    SelectorExpr   |-> << rq("X", "Expr"), kp("Sel", "Ident") >>,
    SendStmt       |-> << op("Chan", "Expr"), op("Value", "Expr") >>,
    SliceExpr      |-> << rq("X", "Expr"), op("Low", "Expr"),
                          op("High", "Expr"), op("Max", "Expr") >>,
    StarExpr       |-> << rq("X", "Expr") >>,
    StructType     |-> << rq("Fields", "FieldList") >>,
    SwitchStmt     |-> << op("Init", "Stmt"), op("Tag", "Expr"),
                          op("Body", "BlockStmt") >>,
    TypeAssertExpr |-> << op("X", "Expr"), op("Type", "Expr") >>,
    TypeSpec       |-> << rq("Type", "Expr") >>,
    TypeSwitchStmt |-> << op("Init", "Stmt"), op("Assign", "Stmt"),
                          op("Body", "BlockStmt") >>,
    UnaryExpr      |-> << rq("X", "Expr") >>,
    ValueSpec      |-> << kp("Type", "Expr"), ls("Values", "Expr") >> ]

\* The kinds with a cloning case.
CloneKinds == DOMAIN Shape

\* The child slots of a kind; a kind without a case has none in the model.
SlotsOf(kind) ==
  IF kind \in CloneKinds THEN Shape[kind]
  ELSE IF kind \in LeafKinds THEN LeafShape[kind]
  ELSE << >>

IsSingle(d) == d.how \in {"req", "opt", "keep"}
IsMany(d) == d.how \in {"list", "keeplist"}
IsVisited(d) == d.how \in {"req", "opt", "list"}


----------------------------------------------------------------------------
(* The rewriter.  An operator that rewrites returns [h, r, ok]: the heap   *)
(* after it ran, the value it returned, and ok = FALSE when it panicked    *)
(* (then nothing is returned and r is 0).                                  *)

Ret(h, r) == [h |-> h, r |-> r, ok |-> TRUE]
Panic(h) == [h |-> h, r |-> 0, ok |-> FALSE]

\* &c, &ast.T{...}, ast.NewIdent: a freshly allocated node.
New(h, c) == Ret(Append(h, c), Len(h) + 1)

NewIdent(name) == [kind |-> "Ident", Name |-> name]

RECURSIVE rewrite(_, _)
RECURSIVE rewriteRange(_, _, _, _)
RECURSIVE rewriteSlots(_, _, _, _)

\* for _, x := range xs { new_xs = append(new_xs, rewrite(x)) }, from
\* element i on, acc being new_xs so far.
rewriteRange(h, xs, i, acc) ==
  IF i > Len(xs) THEN Ret(h, acc)
  ELSE LET q == rewrite(h, xs[i])
       IN  IF q.ok THEN rewriteRange(q.h, xs, i + 1, Append(acc, q.r))
           ELSE Panic(q.h)

\* rewriteExprs without its nil check: a nil slice comes back empty.
rewriteExprsNoNilCheck(h, exprs) ==
  LET q == rewriteRange(h, exprs.elems, 1, << >>)
  IN  IF q.ok THEN Ret(q.h, Slice(q.r)) ELSE Panic(q.h)

rewriteExprs(h, exprs) ==
  IF exprs.nil THEN Ret(h, NilSlice)
  ELSE LET q == rewriteRange(h, exprs.elems, 1, << >>)
       IN  IF q.ok THEN Ret(q.h, Slice(q.r)) ELSE Panic(q.h)

rewriteStmts(h, stmts) ==
  IF stmts.nil THEN Ret(h, NilSlice)
  ELSE LET q == rewriteRange(h, stmts.elems, 1, << >>)
       IN  IF q.ok THEN Ret(q.h, Slice(q.r)) ELSE Panic(q.h)

\* The loops of the FieldList and GenDecl cases: if c.S != nil { ... }.
rewriteNodes(h, list) ==
  IF list.nil THEN Ret(h, NilSlice)
  ELSE LET q == rewriteRange(h, list.elems, 1, << >>)
       IN  IF q.ok THEN Ret(q.h, Slice(q.r)) ELSE Panic(q.h)

\* The slice helper a list slot of the given element type goes through.
rewriteList(h, ty, list) ==
  CASE ty = "Expr" -> rewriteExprs(h, list)
    [] ty = "Stmt" -> rewriteStmts(h, list)
    [] OTHER -> rewriteNodes(h, list)

\* The body of a cloning case after c := *v: the assignments to c's slots
\* from slot i on, then return &c.
rewriteSlots(h, c, slots, i) ==
  IF i > Len(slots) THEN New(h, c)
  ELSE LET d == slots[i]
       IN  CASE d.how = "req" \/ (d.how = "opt" /\ c[d.n] # 0) ->
                  LET q == rewrite(h, c[d.n])
                  IN  IF q.ok
                      THEN rewriteSlots(q.h, [c EXCEPT ![d.n] = q.r],
                                        slots, i + 1)
                      ELSE Panic(q.h)
             [] d.how = "list" ->
                  LET q == rewriteList(h, d.ty, c[d.n])
                  IN  IF q.ok
                      THEN rewriteSlots(q.h, [c EXCEPT ![d.n] = q.r],
                                        slots, i + 1)
                      ELSE Panic(q.h)
             [] OTHER -> rewriteSlots(h, c, slots, i + 1)

\* The CallExpr case with c.Args = append({ctx}, c.Args...): the arguments
\* are copied, not rewritten.
rewriteCallExprArgsKept(h, v) ==
  LET f == rewrite(h, v.Fun)
  IN  IF ~f.ok THEN Panic(f.h)
      ELSE LET id == New(f.h, NewIdent(ctxVariable))
           IN  New(id.h, [v EXCEPT !.Fun = f.r,
                                   !.Args = Slice(<<id.r>> \o v.Args.elems)])

\* case *ast.CallExpr
rewriteCallExpr(h, v) ==
  LET f == rewrite(h, v.Fun)
  IN  IF ~f.ok THEN Panic(f.h)
      ELSE LET id == New(f.h, NewIdent(ctxVariable))
               a  == rewriteExprs(id.h, v.Args)
           IN  IF ~a.ok THEN Panic(a.h)
               ELSE New(a.h, [v EXCEPT !.Fun = f.r,
                                       !.Args = Slice(<<id.r>> \o a.r.elems)])

\* case *ast.FieldList
rewriteFieldList(h, v) == rewriteSlots(h, v, Shape["FieldList"], 1)

\* The synthetic parameter of the FuncType case, allocated on h:
\* &ast.Field{Names: {NewIdent(ctxVariable)},
\*            Type: &ast.SelectorExpr{X: NewIdent("context"),
\*                                    Sel: NewIdent("Context")}}
NewCtxField(h) ==
  LET n == New(h, NewIdent(ctxVariable))
      x == New(n.h, NewIdent("context"))
      s == New(x.h, NewIdent("Context"))
      t == New(s.h, [kind |-> "SelectorExpr", X |-> x.r, Sel |-> s.r])
  IN  New(t.h, [kind |-> "Field", Names |-> Slice(<<n.r>>), Type |-> t.r])

\* The FuncType case with the parameter appended after the original ones.
rewriteFuncTypeCtxLast(h, v) ==
  LET p == rewrite(h, v.Params)
  IN  IF ~p.ok THEN Panic(p.h)
      ELSE LET fld == NewCtxField(p.h)
               h1  == [fld.h EXCEPT ![p.r].List =
                         Slice(fld.h[p.r].List.elems \o <<fld.r>>)]
               r   == IF v.Results # 0 THEN rewrite(h1, v.Results)
                      ELSE Ret(h1, 0)
           IN  IF ~r.ok THEN Panic(r.h)
               ELSE New(r.h, [v EXCEPT !.Params = p.r, !.Results = r.r])

\* The FuncType case without c.Params = rewrite(c.Params): the fields are
\* rewritten, and the new list is stored through c.Params, which after
\* c := *v still points to the input's FieldList.
rewriteFuncTypeSharedParams(h, v) ==
  IF v.Params = 0 THEN Panic(h)
  ELSE LET fs == rewriteRange(h, h[v.Params].List.elems, 1, << >>)
       IN  IF ~fs.ok THEN Panic(fs.h)
           ELSE LET fld == NewCtxField(fs.h)
                    h1  == [fld.h EXCEPT ![v.Params].List =
                              Slice(<<fld.r>> \o fs.r)]
                    r   == IF v.Results # 0 THEN rewrite(h1, v.Results)
                           ELSE Ret(h1, 0)
                IN  IF ~r.ok THEN Panic(r.h)
                    ELSE New(r.h, [v EXCEPT !.Results = r.r])

\* case *ast.FuncType.  c.Params.List = append(...) writes the List field of
\* the node c.Params points to, which is the node rewrite(c.Params) returned.
rewriteFuncType(h, v) ==
  LET p == rewrite(h, v.Params)
  IN  IF ~p.ok THEN Panic(p.h)
      ELSE LET fld == NewCtxField(p.h)
               h1  == [fld.h EXCEPT ![p.r].List =
                         Slice(<<fld.r>> \o fld.h[p.r].List.elems)]
               r   == IF v.Results # 0 THEN rewrite(h1, v.Results)
                      ELSE Ret(h1, 0)
           IN  IF ~r.ok THEN Panic(r.h)
               ELSE New(r.h, [v EXCEPT !.Params = p.r, !.Results = r.r])

\* The import declaration of the File case, allocated on h.
NewImportDecl(h) ==
  LET l == New(h, [kind |-> "BasicLit",
                   Value |-> "\"golang.org/x/net/context\""])
      s == New(l.h, [kind |-> "ImportSpec", Path |-> l.r])
  IN  New(s.h, [kind |-> "GenDecl", Tok |-> "import",
                Specs |-> Slice(<<s.r>>)])

\* The File case with the import declaration appended after the others.
rewriteFileImportLast(h, v) ==
  LET q == rewriteRange(h, v.Decls.elems, 1, << >>)
  IN  IF ~q.ok THEN Panic(q.h)
      ELSE LET imp == NewImportDecl(q.h)
           IN  New(imp.h, [v EXCEPT !.Decls = Slice(Append(q.r, imp.r))])

\* case *ast.File: the range over c.Decls has no nil check, a nil slice is
\* ranged over as an empty one.
rewriteFile(h, v) ==
  LET imp == NewImportDecl(h)
      q   == rewriteRange(imp.h, v.Decls.elems, 1, <<imp.r>>)
  IN  IF ~q.ok THEN Panic(q.h)
      ELSE New(q.h, [v EXCEPT !.Decls = Slice(q.r)])

\* case *ast.ImportSpec, *ast.BasicLit, *ast.Ident, *ast.BranchStmt,
\* *ast.EmptyStmt: return node
rewriteLeaf(h, node) == Ret(h, node)

\* A default case that returns the node it does not know.
rewriteDefaultPassThrough(h, node) == Ret(h, node)

\* default: panic(node).  A nil interface value has no dynamic type and
\* lands here as well; a nil pointer of a kind with a case panics in the
\* case's c := *v.
rewriteDefault(h, node) == Panic(h)

rewrite(h, node) ==
  IF node = 0 THEN rewriteDefault(h, node)
  ELSE LET v == h[node]
       IN  CASE v.kind \in LeafKinds -> rewriteLeaf(h, node)
             [] v.kind = "CallExpr" -> rewriteCallExpr(h, v)
             [] v.kind = "FieldList" -> rewriteFieldList(h, v)
             [] v.kind = "File" -> rewriteFile(h, v)
             [] v.kind = "FuncType" -> rewriteFuncType(h, v)
             [] v.kind \in CloneKinds \ {"CallExpr", "FieldList", "File",
                                         "FuncType"} ->
                  rewriteSlots(h, v, Shape[v.kind], 1)
             [] OTHER -> rewriteDefault(h, node)

----------------------------------------------------------------------------
(* Trees as values.  A tree is a node record whose single child slots hold *)
(* << >> (absent) or <<subtree>> and whose sequence slots hold a slice of  *)
(* subtrees.  Tree reads the tree below a pointer off the heap; Load       *)
(* allocates a tree, as the parser does for the text it parses.            *)

SlotNames(kind) == {SlotsOf(kind)[i].n : i \in 1..Len(SlotsOf(kind))}
SlotOf(kind, n) ==
  LET i == CHOOSE j \in 1..Len(SlotsOf(kind)) : SlotsOf(kind)[j].n = n
  IN  SlotsOf(kind)[i]

RECURSIVE Tree(_, _)
Tree(h, id) ==
  LET v == h[id]
  IN  [s \in DOMAIN v |->
         IF s \notin SlotNames(v.kind) THEN v[s]
         ELSE IF IsSingle(SlotOf(v.kind, s))
              THEN IF v[s] = 0 THEN << >> ELSE << Tree(h, v[s]) >>
              ELSE [nil |-> v[s].nil,
                    elems |-> [i \in 1..Len(v[s].elems) |->
                                 Tree(h, v[s].elems[i])]]]

RECURSIVE Load(_, _)
RECURSIVE LoadRange(_, _, _, _)
RECURSIVE LoadSlots(_, _, _, _)

LoadRange(h, ts, i, acc) ==
  IF i > Len(ts) THEN Ret(h, acc)
  ELSE LET q == Load(h, ts[i])
       IN  LoadRange(q.h, ts, i + 1, Append(acc, q.r))

LoadSlots(h, t, slots, i) ==
  IF i > Len(slots) THEN New(h, t)
  ELSE LET d == slots[i]
       IN  IF IsSingle(d)
           THEN IF t[d.n] = << >>
                THEN LoadSlots(h, [t EXCEPT ![d.n] = 0], slots, i + 1)
                ELSE LET q == Load(h, t[d.n][1])
                     IN  LoadSlots(q.h, [t EXCEPT ![d.n] = q.r], slots, i + 1)
           ELSE LET q == LoadRange(h, t[d.n].elems, 1, << >>)
                IN  LoadSlots(q.h, [t EXCEPT ![d.n].elems = q.r], slots, i + 1)

Load(h, t) == LoadSlots(h, t, SlotsOf(t.kind), 1)

----------------------------------------------------------------------------
(* Input trees. *)

IdentT(name) == [kind |-> "Ident", Name |-> name]
CallT(f, as) == [kind |-> "CallExpr", Fun |-> <<f>>, Args |-> as]
FieldT(names, ty) == [kind |-> "Field", Names |-> names, Type |-> <<ty>>]
FieldListT(l) == [kind |-> "FieldList", List |-> l]
FuncTypeT(ps, rs) == [kind |-> "FuncType", Params |-> <<ps>>, Results |-> rs]
BlockT(l) == [kind |-> "BlockStmt", List |-> l]
ExprStmtT(x) == [kind |-> "ExprStmt", X |-> <<x>>]
ValueSpecT(ty, vs) == [kind |-> "ValueSpec", Type |-> ty, Values |-> vs]
GenDeclT(tok, ss) == [kind |-> "GenDecl", Tok |-> tok, Specs |-> ss]
FuncDeclT(rv, ty, b) ==
  [kind |-> "FuncDecl", Recv |-> rv, Body |-> b, Type |-> <<ty>>]
FileT(ds) == [kind |-> "File", Decls |-> ds]

\* Kinds go/ast defines and the type switch has no case for.
NoCaseKinds == {"BadExpr", "BadStmt", "BadDecl", "IndexListExpr"}

\* g(x)
CallGX == CallT(IdentT("g"), Slice(<<IdentT("x")>>))
\* (a T)
ParamsAT == FieldListT(Slice(<<FieldT(Slice(<<IdentT("a")>>), IdentT("T"))>>))
\* func(a T)
FuncTypeAT == FuncTypeT(ParamsAT, << >>)
\* func() (T): an empty parameter list, one result
FuncTypeRes ==
  FuncTypeT(FieldListT(NilSlice),
            <<FieldListT(Slice(<<FieldT(NilSlice, IdentT("T"))>>))>>)
\* { g(x) }
BlockGX == BlockT(Slice(<<ExprStmtT(CallGX)>>))
\* f func(a T) = g(x)
ValueSpecF == ValueSpecT(<<FuncTypeAT>>, Slice(<<CallGX>>))
\* func f(a T) { g(x) }
FuncDeclF == FuncDeclT(<< >>, FuncTypeAT, <<BlockGX>>)

\* The subtrees a generated input puts in a single child slot of static
\* type ty.
Samples(ty) ==
  CASE ty = "Expr" -> {IdentT("x"), CallGX, FuncTypeAT, [kind |-> "BadExpr"]}
    [] ty = "Stmt" -> {[kind |-> "EmptyStmt"], ExprStmtT(CallGX),
                       [kind |-> "BadStmt"]}
    [] ty = "Decl" -> {FuncDeclF, GenDeclT("var", Slice(<<ValueSpecF>>)),
                       [kind |-> "BadDecl"]}
    [] ty = "BlockStmt" -> {BlockGX, BlockT(NilSlice)}
    [] ty = "CallExpr" -> {CallGX, CallT(IdentT("f"), Slice(<<CallGX>>)),
                           CallT([kind |-> "BadExpr"], NilSlice)}
    [] ty = "FieldList" -> {ParamsAT, FieldListT(NilSlice),
                            FieldListT(Slice(<< >>)),
                            FieldListT(Slice(<<FieldT(NilSlice, FuncTypeAT)>>))}
    [] ty = "FuncType" -> {FuncTypeAT, FuncTypeRes}
    [] ty = "BasicLit" -> {[kind |-> "BasicLit", Value |-> "1"]}
    [] ty = "Ident" -> {IdentT("x")}

\* The subtrees a generated input puts in a sequence slot of element type ty.
ElemSamples(ty) ==
  CASE ty = "Expr" -> {IdentT("x"), CallGX, [kind |-> "BadExpr"]}
    [] ty = "Stmt" -> {ExprStmtT(CallGX), [kind |-> "BadStmt"]}
    [] ty = "Decl" -> {FuncDeclF, [kind |-> "BadDecl"]}
    [] ty = "Spec" -> {ValueSpecF,
                       [kind |-> "ImportSpec",
                        Path |-> <<[kind |-> "BasicLit", Value |-> "\"os\""]>>]}
    [] ty = "Field" -> {FieldT(Slice(<<IdentT("a")>>), IdentT("T")),
                        FieldT(NilSlice, FuncTypeAT)}
    [] ty = "Ident" -> {IdentT("a")}

RECURSIVE SeqsUpTo(_, _)
SeqsUpTo(S, n) ==
  IF n = 0 THEN {<< >>}
  ELSE LET shorter == SeqsUpTo(S, n - 1)
       IN  shorter \cup {Append(s, x) : s \in {t \in shorter : Len(t) = n - 1},
                                        x \in S}

\* The values a generated input gives slot d.
Fill(d) ==
  IF IsSingle(d) THEN {<< >>} \cup {<<t>> : t \in Samples(d.ty)}
  ELSE {NilSlice} \cup {Slice(s) : s \in SeqsUpTo(ElemSamples(d.ty), MaxLen)}

RECURSIVE Fillings(_, _, _)
Fillings(base, slots, i) ==
  IF i > Len(slots) THEN {base}
  ELSE {t @@ (slots[i].n :> x) : t \in Fillings(base, slots, i + 1),
                                 x \in Fill(slots[i])}

\* The leaf value of a generated node.
Base(kind) ==
  CASE kind = "Ident" -> IdentT("x")
    [] kind = "BasicLit" -> [kind |-> "BasicLit", Value |-> "1"]
    [] kind = "GenDecl" -> [kind |-> "GenDecl", Tok |-> "var"]
    [] OTHER -> [kind |-> kind]

\* Every node kind, with every filling of its child slots.
Inputs ==
  UNION {Fillings(Base(k), SlotsOf(k), 1) :
           k \in CloneKinds \cup LeafKinds \cup NoCaseKinds}

----------------------------------------------------------------------------
(* Source text, the parser and the printer.  A text is known by whether it *)
(* parses and by the tree it parses to; the printer's output for a tree is *)
(* the text of that tree.                                                  *)

NoErr == "nil"
ParseErr == "parse error"
CreateErr == "create error"
PrintErr == "print error"

Text(t) == [parses |-> TRUE, ast |-> <<t>>, what |-> "source"]
Unparseable == [parses |-> FALSE, ast |-> << >>, what |-> "garbage"]
Partial == [parses |-> FALSE, ast |-> << >>, what |-> "partial output"]
Empty == [parses |-> FALSE, ast |-> << >>, what |-> "empty"]
ErrLine(e) == [parses |-> FALSE, ast |-> << >>, what |-> e]

\* parser.ParseFile: (f, err), f allocated on h.
ParseFile(h, text) ==
  IF text.parses
  THEN LET q == Load(h, text.ast[1]) IN [h |-> q.h, f |-> q.r, err |-> NoErr]
  ELSE [h |-> h, f |-> 0, err |-> ParseErr]

\* printer.Fprint: what it writes for the tree below node.
Fprint(h, node) == Text(Tree(h, node))

\* package p; func f(a T) { g(x) }
FileOK == FileT(Slice(<<FuncDeclF>>))
\* package p; var f func(a T) = h[int, string]: it parses, and its value is
\* an *ast.IndexListExpr
FileHalt ==
  FileT(Slice(<<GenDeclT("var",
     Slice(<<ValueSpecT(<<FuncTypeAT>>,
                        Slice(<<[kind |-> "IndexListExpr"]>>))>>))>>))

Sources == {Unparseable, Text(FileOK), Text(FileHalt)}
Paths == {"a.go", "b.go"}

NoRet == [bytes |-> << >>, err |-> "not returned"]

----------------------------------------------------------------------------
(* The three ways the package is entered: a direct call of rewrite on a    *)
(* node, Process on a source text, and main on a command line.             *)

Idle ==
  /\ res = 0 /\ res2 = 0
  /\ pret = NoRet
  /\ idx = 0 /\ filename = "" /\ stdout = << >> /\ err = NoErr

InitRewrite ==
  /\ \E t \in Inputs :
       LET q == Load(<< >>, t) IN heap = q.h /\ root = q.r
  /\ pc = "rewrite"
  /\ source = Empty /\ args = << >> /\ inplace = FALSE
  /\ disk = [p \in Paths |-> Empty]
  /\ Idle

InitProcess ==
  /\ heap = << >> /\ root = 0
  /\ pc = "Process"
  /\ source \in Sources
  /\ args = << >> /\ inplace = FALSE
  /\ disk = [p \in Paths |-> Empty]
  /\ Idle

InitMain ==
  /\ heap = << >> /\ root = 0
  /\ pc = "main"
  /\ source = Empty
  /\ args \in SeqsUpTo(Paths, MaxArgs)
  /\ inplace \in BOOLEAN
  /\ disk \in [Paths -> Sources]
  /\ Idle

Init == InitRewrite \/ InitProcess \/ InitMain

\* rewrite(root)
Rewrite ==
  /\ pc = "rewrite"
  /\ LET q == rewrite(heap, root)
     IN  /\ heap' = q.h
         /\ res' = q.r
         /\ pc' = IF q.ok THEN "returned" ELSE "panicked"
  /\ UNCHANGED <<root, res2, source, pret, args, inplace, idx, filename,
                 disk, stdout, err>>

\* rewrite(root) once more, on the same input
RewriteAgain ==
  /\ pc = "returned"
  /\ LET q == rewrite(heap, root)
     IN  /\ heap' = q.h
         /\ res2' = q.r
         /\ pc' = IF q.ok THEN "returned2" ELSE "panicked"
  /\ UNCHANGED <<root, res, source, pret, args, inplace, idx, filename,
                 disk, stdout, err>>

\* Process, up to the check of the parser's error
ProcessParse ==
  /\ pc = "Process"
  /\ LET p == ParseFile(heap, source)
     IN  IF p.err # NoErr
         THEN /\ pret' = [bytes |-> << >>, err |-> p.err]
              /\ pc' = "Process_ret"
              /\ UNCHANGED <<heap, root>>
         ELSE /\ heap' = p.h
              /\ root' = p.f
              /\ pc' = "Process_print"
              /\ UNCHANGED pret
  /\ UNCHANGED <<res, res2, source, args, inplace, idx, filename, disk,
                 stdout, err>>

\* Process: err = printer.Fprint(&out, fset, rewrite(f)); return
ProcessPrint ==
  /\ pc = "Process_print"
  /\ LET q == rewrite(heap, root)
     IN  /\ heap' = q.h
         /\ res' = q.r
         /\ IF ~q.ok
            THEN pc' = "panicked" /\ UNCHANGED pret
            ELSE /\ pc' = "Process_ret"
                 /\ \/ pret' = [bytes |-> <<Fprint(q.h, q.r)>>, err |-> NoErr]
                    \/ pret' = [bytes |-> <<Partial>>, err |-> PrintErr]
  /\ UNCHANGED <<root, res2, source, args, inplace, idx, filename, disk,
                 stdout, err>>

\* main: the next iteration of the loop over flag.Args(), up to the call
\* of ProcessFile
MainRange ==
  /\ pc = "main"
  /\ IF idx < Len(args)
     THEN /\ idx' = idx + 1
          /\ filename' = args[idx + 1]
          /\ pc' = "ProcessFile"
     ELSE /\ pc' = "exit"
          /\ UNCHANGED <<idx, filename>>
  /\ UNCHANGED <<heap, root, res, res2, source, pret, args, inplace, disk,
                 stdout, err>>

\* ProcessFile with the output file created before the input is parsed.
ProcessFileParseAfterCreate ==
  /\ pc = "ProcessFile"
  /\ disk' = IF inplace THEN [disk EXCEPT ![filename] = Empty] ELSE disk
  /\ LET p == ParseFile(heap, disk'[filename])
     IN  /\ heap' = p.h
         /\ root' = p.f
         /\ res' = 0
         /\ err' = p.err
         /\ pc' = IF p.err # NoErr THEN "main_err" ELSE "ProcessFile_rewrite"
  /\ UNCHANGED <<res2, source, pret, args, inplace, idx, filename, stdout>>

\* ProcessFile, up to the check of the parser's error
ProcessFileParse ==
  /\ pc = "ProcessFile"
  /\ LET p == ParseFile(heap, disk[filename])
     IN  /\ heap' = p.h
         /\ root' = p.f
         /\ res' = 0
         /\ err' = p.err
         /\ pc' = IF p.err # NoErr THEN "main_err" ELSE "ProcessFile_out"
  /\ UNCHANGED <<res2, source, pret, args, inplace, idx, filename, disk,
                 stdout>>

\* ProcessFile: the choice of out; os.Create truncates the file it opens
ProcessFileCreate ==
  /\ pc = "ProcessFile_out"
  /\ IF inplace
     THEN \/ /\ disk' = [disk EXCEPT ![filename] = Empty]
             /\ pc' = "ProcessFile_rewrite"
             /\ UNCHANGED err
          \/ /\ err' = CreateErr
             /\ pc' = "main_err"
             /\ UNCHANGED disk
     ELSE /\ pc' = "ProcessFile_rewrite"
          /\ UNCHANGED <<disk, err>>
  /\ UNCHANGED <<heap, root, res, res2, source, pret, args, inplace, idx,
                 filename, stdout>>

\* ProcessFile: rewrite(f), the argument of printer.Fprint.  A panic unwinds
\* ProcessFile (the deferred fh.Close runs) and main, and ends the process.
ProcessFileRewrite ==
  /\ pc = "ProcessFile_rewrite"
  /\ LET q == rewrite(heap, root)
     IN  /\ heap' = q.h
         /\ res' = q.r
         /\ pc' = IF q.ok THEN "ProcessFile_print" ELSE "panicked"
  /\ UNCHANGED <<root, res2, source, pret, args, inplace, idx, filename,
                 disk, stdout, err>>

\* What printer.Fprint leaves in its destination and returns.
Printed(text, e) ==
  /\ err' = e
  /\ IF inplace
     THEN disk' = [disk EXCEPT ![filename] = text] /\ UNCHANGED stdout
     ELSE stdout' = Append(stdout, text) /\ UNCHANGED disk

\* ProcessFile: return printer.Fprint(out, fset, ...)
ProcessFilePrint ==
  /\ pc = "ProcessFile_print"
  /\ \/ Printed(Fprint(heap, res), NoErr)
     \/ Printed(Partial, PrintErr)
     \/ err' = PrintErr /\ UNCHANGED <<disk, stdout>>
  /\ pc' = "main_err"
  /\ UNCHANGED <<heap, root, res, res2, source, pret, args, inplace, idx,
                 filename>>

\* main with continue in place of break.
MainErrContinue ==
  /\ pc = "main_err"
  /\ IF err # NoErr
     THEN stdout' = Append(stdout, ErrLine(err)) /\ pc' = "main"
     ELSE pc' = "main" /\ UNCHANGED stdout
  /\ UNCHANGED <<heap, root, res, res2, source, pret, args, inplace, idx,
                 filename, disk, err>>

\* main: if err != nil { fmt.Println(err.Error()); break }
MainErr ==
  /\ pc = "main_err"
  /\ IF err # NoErr
     THEN stdout' = Append(stdout, ErrLine(err)) /\ pc' = "exit"
     ELSE pc' = "main" /\ UNCHANGED stdout
  /\ UNCHANGED <<heap, root, res, res2, source, pret, args, inplace, idx,
                 filename, disk, err>>

Next ==
  \/ Rewrite
  \/ RewriteAgain
  \/ ProcessParse
  \/ ProcessPrint
  \/ MainRange
  \/ ProcessFileParse
  \/ ProcessFileCreate
  \/ ProcessFileRewrite
  \/ ProcessFilePrint
  \/ MainErr

Spec == Init /\ [][Next]_vars

----------------------------------------------------------------------------
(* What the properties below speak of. *)

\* res # 0: rewrite(root) has returned res.
Kind(n) == heap[n].kind

\* The tree rewrite returns for node n of heap h: <<tree>>, or << >> when
\* it panics.
RewTree(h, n) ==
  LET q == rewrite(h, n) IN IF q.ok THEN << Tree(q.h, q.r) >> ELSE << >>

\* The calls rewrite(i) made below rewrite(i0), each with the node it
\* returned: the visited slots of an input node and of its output node
\* are walked side by side, the elements of a sequence aligned at its end
\* (an injected element is a leading one).
RECURSIVE Pairs(_, _, _)
Pairs(h, i, o) ==
  {<<i, o>>} \cup
  IF h[i].kind \notin CloneKinds \/ h[o].kind # h[i].kind THEN {}
  ELSE UNION {
         LET d == Shape[h[i].kind][k]
         IN  IF ~IsVisited(d) THEN {}
             ELSE IF IsSingle(d)
                  THEN IF h[i][d.n] = 0 \/ h[o][d.n] = 0 THEN {}
                       ELSE Pairs(h, h[i][d.n], h[o][d.n])
                  ELSE LET a == h[i][d.n].elems
                           b == h[o][d.n].elems
                       IN  IF Len(b) < Len(a) THEN {}
                           ELSE UNION {Pairs(h, a[j], b[j + Len(b) - Len(a)]) :
                                         j \in 1..Len(a)}
         : k \in 1..Len(Shape[h[i].kind]) }

\* Every node below n, through every child slot.
RECURSIVE Desc(_, _)
Desc(h, n) ==
  {n} \cup
  UNION { LET d == SlotsOf(h[n].kind)[k]
          IN  IF IsSingle(d)
              THEN IF h[n][d.n] = 0 THEN {} ELSE Desc(h, h[n][d.n])
              ELSE UNION {Desc(h, h[n][d.n].elems[j]) :
                            j \in 1..Len(h[n][d.n].elems)}
          : k \in 1..Len(SlotsOf(h[n].kind)) }

\* rewrite(n) reaches a node of a kind without a case, or an absent node
\* in a slot rewritten unconditionally.
RECURSIVE Halts(_, _)
Halts(h, n) ==
  \/ n = 0
  \/ n # 0 /\ h[n].kind \notin CloneKinds \cup LeafKinds
  \/ /\ n # 0
     /\ h[n].kind \in CloneKinds
     /\ \E k \in 1..Len(Shape[h[n].kind]) :
          LET d == Shape[h[n].kind][k]
          IN  \/ d.how = "req" /\ Halts(h, h[n][d.n])
              \/ d.how = "opt" /\ h[n][d.n] # 0 /\ Halts(h, h[n][d.n])
              \/ d.how = "list" /\ \E j \in 1..Len(h[n][d.n].elems) :
                                     Halts(h, h[n][d.n].elems[j])

\* ctx context.Context
CtxFieldTree ==
  FieldT(Slice(<<IdentT("ctx")>>),
         [kind |-> "SelectorExpr", X |-> <<IdentT("context")>>,
          Sel |-> <<IdentT("Context")>>])

\* import "golang.org/x/net/context"
ImportDeclTree ==
  GenDeclT("import",
    Slice(<<[kind |-> "ImportSpec",
             Path |-> <<[kind |-> "BasicLit",
                         Value |-> "\"golang.org/x/net/context\""]>>]>>))

\* Sequence b is sequence a rewritten element by element, after lead
\* leading elements.
ElementsRewritten(h, a, b, lead) ==
  /\ Len(b) = Len(a) + lead
  /\ \A j \in 1..Len(a) : << Tree(h, b[j + lead]) >> = RewTree(h, a[j])

\* Output function type o is input function type i with the parameter
\* injected.
FuncTypeInjected(h, i, o) ==
  /\ h[o].kind = "FuncType"
  /\ h[o].Params # 0
  /\ LET a == h[h[i].Params].List
         b == h[h[o].Params].List
     IN  /\ ~b.nil
         /\ Len(b.elems) >= 1
         /\ Tree(h, b.elems[1]) = CtxFieldTree
         /\ ElementsRewritten(h, a.elems, b.elems, 1)
  /\ IF h[i].Results = 0 THEN h[o].Results = 0
     ELSE /\ h[o].Results # 0
          /\ LET a == h[h[i].Results].List
                 b == h[h[o].Results].List
             IN  /\ b.nil = a.nil
                 /\ ElementsRewritten(h, a.elems, b.elems, 0)

\* Output call o is input call i with the argument injected.
CallInjected(h, i, o) ==
  /\ h[o].kind = "CallExpr"
  /\ h[o].Fun # 0
  /\ << Tree(h, h[o].Fun) >> = RewTree(h, h[i].Fun)
  /\ ~h[o].Args.nil
  /\ Len(h[o].Args.elems) >= 1
  /\ Tree(h, h[o].Args.elems[1]) = IdentT("ctx")
  /\ ElementsRewritten(h, h[i].Args.elems, h[o].Args.elems, 1)

----------------------------------------------------------------------------
(* C1: whenever rewrite returns, every function type it rewrote (the root, *)
(* the Type of a FuncDecl or FuncLit, a type position) has as parameter    *)
(* list the field ctx context.Context followed by the rewritten original   *)
(* fields in order (one field when the original list is empty or nil),     *)
(* and its result list is absent if it was absent and else has the         *)
(* rewritten original fields and nothing more.                             *)
C1_ParamInjected ==
  res # 0 =>
    \A p \in Pairs(heap, root, res) :
      Kind(p[1]) = "FuncType" => FuncTypeInjected(heap, p[1], p[2])

\* A function declaration func f(a T) ... was rewritten to
\* func f(ctx context.Context, a T).
C1_Witness ==
  /\ res # 0
  /\ Kind(root) = "FuncDecl"
  /\ Len(heap[heap[heap[root].Type].Params].List.elems) = 1
  /\ Len(heap[heap[heap[res].Type].Params].List.elems) = 2

(* C2: whenever rewrite returns, every call it rewrote, at any depth, has  *)
(* the rewritten callee and as arguments the identifier ctx followed by    *)
(* the rewritten original arguments in order (also for nil or empty        *)
(* arguments); a defer or go statement is a copy of the original with its  *)
(* call replaced by the call so rewritten.                                 *)
C2_ArgInjected ==
  res # 0 =>
    \A p \in Pairs(heap, root, res) :
      /\ Kind(p[1]) = "CallExpr" => CallInjected(heap, p[1], p[2])
      /\ Kind(p[1]) \in {"DeferStmt", "GoStmt"} =>
           /\ Kind(p[2]) = Kind(p[1])
           /\ heap[p[2]].Call # 0
           /\ CallInjected(heap, heap[p[1]].Call, heap[p[2]].Call)
           /\ [heap[p[2]] EXCEPT !.Call = heap[p[1]].Call] = heap[p[1]]

\* defer f(g(x)) was rewritten: a call nested in a call in a defer.
C2_Witness ==
  /\ res # 0
  /\ Kind(root) = "DeferStmt"
  /\ Len(heap[heap[root].Call].Args.elems) = 1
  /\ Kind(heap[heap[root].Call].Args.elems[1]) = "CallExpr"
  /\ Len(heap[heap[heap[res].Call].Args.elems[2]].Args.elems) = 2

(* C3: a rewritten file with N declarations (N >= 0, a nil list included)  *)
(* has N + 1: the import of the context package, then the rewritten        *)
(* original declarations in order.                                         *)
C3_ImportPrepended ==
  res # 0 /\ Kind(root) = "File" =>
    /\ Kind(res) = "File"
    /\ ~heap[res].Decls.nil
    /\ Len(heap[res].Decls.elems) >= 1
    /\ Tree(heap, heap[res].Decls.elems[1]) = ImportDeclTree
    /\ ElementsRewritten(heap, heap[root].Decls.elems,
                         heap[res].Decls.elems, 1)

\* A file with MaxLen declarations was rewritten.
C3_Witness ==
  /\ res # 0
  /\ Kind(root) = "File"
  /\ Len(heap[root].Decls.elems) = MaxLen

(* C4: in the tree rewrite returns, every call expression and every        *)
(* function type, in whichever child slot it sits, carries the injected    *)
(* leading argument / parameter.                                           *)
C4_EveryDescendantRewritten ==
  res # 0 =>
    \A n \in Desc(heap, res) :
      /\ Kind(n) = "CallExpr" =>
           /\ Len(heap[n].Args.elems) >= 1
           /\ Tree(heap, heap[n].Args.elems[1]) = IdentT("ctx")
      /\ Kind(n) = "FuncType" =>
           /\ heap[n].Params # 0
           /\ Len(heap[heap[n].Params].List.elems) >= 1
           /\ Tree(heap, heap[heap[n].Params].List.elems[1]) = CtxFieldTree

(* C5: when rewrite reaches a node of a kind without a case, or an absent  *)
(* node in a slot it rewrites unconditionally, it panics: no tree is       *)
(* returned to any caller, nothing runs after it, and no tree it returns   *)
(* holds such a node in a slot it visits.                                  *)
C5_HaltsOnUnknown ==
  /\ res # 0 => ~Halts(heap, root) /\ ~Halts(heap, res)
  /\ pc \in {"returned", "returned2", "ProcessFile_print"} => res # 0
  /\ pc = "panicked" => res = 0 /\ res2 = 0 /\ pret = NoRet
  /\ pc = "Process_ret" /\ pret.err # ParseErr => res # 0
  /\ pc = "main_err" /\ err \notin {ParseErr, CreateErr} => res # 0

\* defer BadExpr(): the node without a case is two levels below the root.
C5_Witness ==
  /\ pc = "panicked"
  /\ Kind(root) = "DeferStmt"
  /\ heap[root].Call # 0
  /\ heap[heap[root].Call].Fun # 0
  /\ Kind(heap[heap[root].Call].Fun) = "BadExpr"

(* C6: no step changes a node that exists: rewrite writes only to nodes it *)
(* allocated.  And a second rewrite of the same input returns a tree equal *)
(* to the first.                                                           *)
C6_InputNotMutated ==
  /\ [][/\ Len(heap') >= Len(heap)
        /\ \A i \in 1..Len(heap) : heap'[i] = heap[i]]_vars
  /\ [](res2 # 0 => Tree(heap, res) = Tree(heap, res2))

\* A function type with a nil parameter list was rewritten twice.
C6_Witness ==
  /\ res2 # 0
  /\ Kind(root) = "FuncType"
  /\ heap[heap[root].Params].List.nil
  /\ heap[root].Results # 0

(* C7: when rewrite panics in ProcessFile or Process, nothing of that      *)
(* input has been written or returned, and with the in-place flag the      *)
(* file still holds the text that was parsed.                              *)
C7_NoOutputOnHalt ==
  pc = "panicked" /\ (filename # "" \/ source # Empty) =>
    /\ pret = NoRet
    /\ Len(stdout) = IF inplace THEN 0 ELSE IF idx = 0 THEN 0 ELSE idx - 1
    /\ inplace => disk[filename] = Text(Tree(heap, root))

\* The lines main printed for a failed input.
ErrLines == {k \in 1..Len(stdout) :
               stdout[k].what \in {ParseErr, CreateErr, PrintErr}}

(* C8, as claimed: main ends with every path of the command line processed *)
C8_EveryPathProcessed ==
  pc \in {"exit", "panicked"} => idx = Len(args)

(* C8, amended: paths are processed in order and the first failure ends    *)
(* the run: ProcessFile is only ever running with no failure reported      *)
(* before it, and main exits either after the last path or right after     *)
(* printing the one error that ProcessFile returned.                       *)
C8_StopsAtFirstFailure ==
  /\ pc \in {"main", "ProcessFile", "ProcessFile_out", "ProcessFile_rewrite",
             "ProcessFile_print", "main_err"} => ErrLines = {}
  /\ pc = "exit" /\ err = NoErr => idx = Len(args) /\ ErrLines = {}
  /\ pc = "exit" /\ err # NoErr =>
       /\ ErrLines = {Len(stdout)}
       /\ stdout[Len(stdout)] = ErrLine(err)
       /\ filename = args[idx]

\* The first of two paths failed to parse and main has exited.
C8_Witness ==
  /\ pc = "exit"
  /\ err = ParseErr
  /\ idx = 1
  /\ Len(args) = 2

(* C9: a step of ProcessFile or Process that finds the input unparseable   *)
(* returns the parser's error at once: rewrite is not called (no node is   *)
(* allocated, nothing is returned by it), nothing is printed, no file is   *)
(* created or truncated; Process returns (nil, err).                       *)
C9_ParseErrorReturned ==
  [][/\ pc = "ProcessFile" /\ ~disk[filename].parses =>
          /\ pc' = "main_err"
          /\ err' = ParseFile(heap, disk[filename]).err
          /\ err' # NoErr
          /\ res' = 0
          /\ UNCHANGED <<heap, disk, stdout>>
     /\ pc = "Process" /\ ~source.parses =>
          /\ pc' = "Process_ret"
          /\ pret' = [bytes |-> << >>, err |-> ParseFile(heap, source).err]
          /\ pret'.err # NoErr
          /\ UNCHANGED <<heap, res, disk, stdout>>
     /\ pc = "main_err" /\ err = ParseErr => pc' = "exit" /\ UNCHANGED disk
    ]_vars

\* With the in-place flag, ProcessFile has returned a parse error.
C9_Witness ==
  /\ pc = "main_err"
  /\ err = ParseErr
  /\ inplace
  /\ disk[filename] = Unparseable

\* The parameter lists: for these the FuncType case adds an element.
ParamLists(h, i0, o0) ==
  {h[p[1]].Params : p \in {q \in Pairs(h, i0, o0) : h[q[1]].kind = "FuncType"}}

(* C10: whenever rewrite returns, every node it rewrote has an output of   *)
(* the same kind; every sequence slot (other than a call's arguments, a    *)
(* parameter list and a file's declarations) is nil if it was nil, and     *)
(* else has the rewritten original elements in order, as many; an absent   *)
(* single child stays absent.                                              *)
C10_GenericRule ==
  res # 0 =>
    \A p \in Pairs(heap, root, res) :
      LET i == heap[p[1]]
          o == heap[p[2]]
      IN  /\ o.kind = i.kind
          /\ DOMAIN o = DOMAIN i
          /\ \A k \in 1..Len(SlotsOf(i.kind)) :
               LET d == SlotsOf(i.kind)[k]
               IN  IF IsSingle(d) THEN i[d.n] = 0 => o[d.n] = 0
                   ELSE \/ <<i.kind, d.n>> \in {<<"CallExpr", "Args">>,
                                                <<"File", "Decls">>}
                        \/ p[1] \in ParamLists(heap, root, res)
                        \/ /\ o[d.n].nil = i[d.n].nil
                           /\ IF IsVisited(d)
                              THEN ElementsRewritten(heap, i[d.n].elems,
                                                     o[d.n].elems, 0)
                              ELSE o[d.n] = i[d.n]

\* A case clause with a nil expression list and an empty, non-nil body.
C10_Witness ==
  /\ res # 0
  /\ Kind(root) = "CaseClause"
  /\ heap[root].List.nil
  /\ heap[res].List.nil
  /\ heap[root].Body = Slice(<< >>)
  /\ heap[res].Body = Slice(<< >>)

============================================================================
